---- MODULE Spec2Model ----
(***************************************************************************)
(* A model of file-watcher-backup: the fsnotify dispatcher (handleEvent,   *)
(* enqueueBackup), the bounded job queue, the worker pool (backupWorker),  *)
(* the versioning engine (CreateBackup, cleanOldVersions) and the          *)
(* lifecycle (Start, Stop, the signal loop of runWatcher).                 *)
(*                                                                         *)
(* Strings are sequences of one-character strings, so that the name        *)
(* formatting, filepath.Match, filepath.Glob and sort.Strings are computed *)
(* as the Go code computes them.                                           *)
(***************************************************************************)
EXTENDS Integers, Sequences, FiniteSets, TLC

(***************************************************************************)
(* Bounds of the model.                                                    *)
(***************************************************************************)
\* the clock runs from StartTime to StartTime + TimeSpan
TimeSpan == 1
\* number of notifications handed to enqueueBackup in one run
MaxEvents == 2
\* capacity of backupQueue (make(chan BackupJob, 100) in NewFileWatcher, scaled down)
QueueCap == 1
\* numWorkers of NewFileWatcher
NumWorkers == 3
\* the I/O faults the environment raises in one run
MaxFaults == 3
\* length of buf in SafeCopyFile (32*1024, scaled down)
ChunkSize == 2
\* the longest source file, in bytes
MaxLen == 5

(***************************************************************************)
(* Configuration (config.Config, main.go flags).                           *)
(***************************************************************************)
\* the clock starts just below a change of digit count of the timestamp
StartTime == 10 - TimeSpan
\* cfg.MinInterval, in clock ticks
MinInterval == 1
\* values of --versions: the CLI accepts any int, the spec asks for >= 1
VersionsRange == {-1, 1, 2}
\* a lastBackup entry that does not exist
NoTime == -1
\* maxRetries: the 3 CreateBackup passes to SafeCopyFile
MaxRetries == 3
\* initialDelay: the 100*time.Millisecond SafeCopyFile passes to RetryWithBackoff
InitialDelay == 100

(***************************************************************************)
(* Strings.                                                                *)
(***************************************************************************)
\* byte value of the characters the model uses (sort.Strings compares bytes)
Ascii(c) ==
    CASE c = "*" -> 42 [] c = "." -> 46 [] c = "/" -> 47
      [] c = "0" -> 48 [] c = "1" -> 49 [] c = "2" -> 50 [] c = "3" -> 51
      [] c = "4" -> 52 [] c = "5" -> 53 [] c = "6" -> 54 [] c = "7" -> 55
      [] c = "8" -> 56 [] c = "9" -> 57 [] c = "?" -> 63
      [] c = "[" -> 91 [] c = "]" -> 93 [] c = "_" -> 95
      [] c = "a" -> 97 [] c = "b" -> 98 [] c = "c" -> 99 [] c = "d" -> 100
      [] c = "g" -> 103 [] c = "i" -> 105 [] c = "m" -> 109 [] c = "p" -> 112
      [] c = "t" -> 116 [] c = "v" -> 118 [] c = "x" -> 120
      [] OTHER -> 127

\* a < b in the order of Go's string comparison
RECURSIVE StrLess(_, _)
StrLess(a, b) ==
    IF b = <<>> THEN FALSE
    ELSE IF a = <<>> THEN TRUE
    ELSE IF Head(a) = Head(b) THEN StrLess(Tail(a), Tail(b))
    ELSE Ascii(Head(a)) < Ascii(Head(b))

\* index of the last occurrence of c in s, 0 if there is none
LastIndex(s, c) ==
    LET I == {i \in 1..Len(s) : s[i] = c}
    IN  IF I = {} THEN 0 ELSE CHOOSE i \in I : \A j \in I : j <= i

\* index of the first occurrence of c in s at or after from, 0 if none
IndexFrom(s, c, from) ==
    LET I == {i \in from..Len(s) : s[i] = c}
    IN  IF I = {} THEN 0 ELSE CHOOSE i \in I : \A j \in I : i <= j

\* strings.Contains(s, sub)
Contains(s, sub) ==
    \E i \in 0..(Len(s) - Len(sub)) : SubSeq(s, i + 1, i + Len(sub)) = sub

\* filepath.Base for a non-empty path without trailing separator
Base(p) == SubSeq(p, LastIndex(p, "/") + 1, Len(p))

\* filepath.Ext: the suffix from the final dot of the final element
Ext(p) ==
    LET b == Base(p)  d == LastIndex(b, ".")
    IN  IF d = 0 THEN <<>> ELSE SubSeq(b, d, Len(b))

\* strings.TrimSuffix(filepath.Base(relPath), ext)
NameWithoutExt(p) == SubSeq(Base(p), 1, Len(Base(p)) - Len(Ext(p)))

\* hasMeta of path/filepath: the pattern holds a magic character
HasMeta(p) == \E i \in 1..Len(p) : p[i] \in {"*", "?", "[", "\\"}

\* filepath.Match(pattern, name): * and ? do not match the separator, [..] is
\* a class of literal characters; a class that is not closed is a bad pattern
\* and matches nothing
RECURSIVE Match(_, _)
Match(p, s) ==
    IF p = <<>> THEN s = <<>>
    ELSE IF Head(p) = "*" THEN
        \/ Match(Tail(p), s)
        \/ s # <<>> /\ Head(s) # "/" /\ Match(p, Tail(s))
    ELSE IF Head(p) = "?" THEN
        s # <<>> /\ Head(s) # "/" /\ Match(Tail(p), Tail(s))
    ELSE IF Head(p) = "[" THEN
        LET close == IndexFrom(p, "]", 3)
        IN  /\ close # 0
            /\ s # <<>>
            /\ \E i \in 2..(close - 1) : p[i] = Head(s)
            /\ Match(SubSeq(p, close + 1, Len(p)), Tail(s))
    ELSE s # <<>> /\ Head(s) = Head(p) /\ Match(Tail(p), Tail(s))

(***************************************************************************)
(* Paths, names and the layout of the backup directory.                    *)
(***************************************************************************)
\* a.txt
PathA == <<"a", ".", "t", "x", "t">>
\* b[1].txt
PathB == <<"b", "[", "1", "]", ".", "t", "x", "t">>
\* d, a directory
PathD == <<"d">>
\* c.tmp
PathT == <<"c", ".", "t", "m", "p">>
\* .git/c
PathG == <<".", "g", "i", "t", "/", "c">>

Paths == {PathA, PathB, PathD, PathT, PathG}

\* the source files that are deleted while the watcher runs
Deletable == {PathA}

\* cfg.IgnorePatterns: *.tmp, *.swp, .git, .DS_Store
IgnorePatterns ==
    { <<"*", ".", "t", "m", "p">>, <<"*", ".", "s", "w", "p">>,
      <<".", "g", "i", "t">>, <<".", "D", "S", "_", "S", "t", "o", "r", "e">> }

\* one decimal digit
Digit(n) == <<"0", "1", "2", "3", "4", "5", "6", "7", "8", "9">>[n + 1]

\* time.Now().Format(...): fixed width, zero padded, most significant first
Format(t) == <<Digit((t \div 10) % 10), Digit(t % 10)>>

\* backupName: <nameWithoutExt>_<timestamp><ext>
BackupName(p, t) == NameWithoutExt(p) \o <<"_">> \o Format(t) \o Ext(p)

\* fileVersionDir below the backup root: <relPath>_versions
VersionDir(p) == p \o <<"_", "v", "e", "r", "s", "i", "o", "n", "s">>

\* the file part of the pattern of cleanOldVersions: <baseName>_*<ext>
CleanPattern(p) == NameWithoutExt(p) \o <<"_", "*">> \o Ext(p)

\* path of a version file below the backup root
FullPath(m) == VersionDir(m.dir) \o <<"/">> \o m.name

\* filepath.Glob(dir/pattern) over the version directories d: a directory part
\* with a magic character is itself expanded as a pattern
Glob(p, d) ==
    LET ds == IF HasMeta(VersionDir(p))
              THEN {q \in Paths : d[q] # {} /\ Match(VersionDir(p), VersionDir(q))}
              ELSE {p}
    IN  UNION { {[dir |-> q, name |-> n] : n \in {x \in d[q] : Match(CleanPattern(p), x)}}
                : q \in ds }

\* sort.Strings on the matched paths
RECURSIVE SortStrings(_)
SortStrings(S) ==
    IF S = {} THEN <<>>
    ELSE LET m == CHOOSE x \in S :
                    \A y \in S \ {x} : StrLess(FullPath(x), FullPath(y))
         IN  <<m>> \o SortStrings(S \ {m})

\* a handler that ignores no path
ShouldIgnoreNever(p) == FALSE

\* shouldIgnore: a pattern matches the base name or is a substring of the path
ShouldIgnore(p) ==
    \E pat \in IgnorePatterns : Match(pat, Base(p)) \/ Contains(p, pat)

\* the paths shouldIgnore rejects
Ignored == {p \in Paths : ShouldIgnore(p)}

(***************************************************************************)
(* State.                                                                  *)
(***************************************************************************)
Workers == 1..NumWorkers
Callers == {"d1", "d2"}
\* fsnotify.Op values delivered with a notification
Ops == { {"Create"}, {"Write"}, {"Remove"}, {"Rename"}, {"Chmod"}, {"Create", "Write"} }
\* the notifications that reach enqueueBackup: a create or a write of a file
\* that no ignore pattern matches
Files == {PathA, PathB}
FileOps == { {"Create"}, {"Write"} }
NoJob == [path |-> <<>>, eventType |-> "", id |-> 0]

\* error values: the call that failed (op), whether the failure is retryable
\* (BackupError.Retryable), the attempt that raised it, whether RetryWithBackoff
\* wrapped it in "exceed max retries", and the wrapping CreateBackup added
Err(stage, op, retryable, attempt, exceeded) ==
    [stage |-> stage, op |-> op, retryable |-> retryable, attempt |-> attempt,
     exceeded |-> exceeded]
\* nil
NilErr == Err("nil", "", FALSE, 0, FALSE)
\* no CreateBackup has returned for the job
NoErr == Err("none", "", FALSE, 0, FALSE)
\* a destination file that was not created
NoFile == <<-1>>
\* the contents of a source file: n distinct bytes, n from 0 to MaxLen
Contents == { [i \in 1..n |-> i] : n \in 0..MaxLen }
\* the faults the environment raises in an attempt of the copy
FaultKinds == {"stat_perm", "create_perm", "create_fatal", "write", "read"}

VARIABLES
    now,            \* the clock (time.Now)
    maxVersions,    \* cfg.MaxVersions
    callers,        \* the goroutines that call handleEvent
    kind,           \* the source tree: "file", "dir" or "none" for each path
    watched,        \* directories registered with fw.watcher.Add
    lastBackup,     \* fw.lastBackup
    mu,             \* fw.mu: its holder, or "free"
    dpc,            \* position of each caller in handleEvent/enqueueBackup
    dev,            \* the job each caller is about to enqueue
    dchk,           \* when a caller about to send read the clock for the debounce check
    queue,          \* fw.backupQueue
    closed,         \* backupQueue has been closed
    nev,            \* notifications handed to enqueueBackup so far
    wpc,            \* position of each worker
    wjob,           \* the job each worker holds
    wts,            \* the timestamp CreateBackup took for it
    matches,        \* the sorted listing of cleanOldVersions
    ri,             \* the loop index of cleanOldVersions
    dirs,           \* the version files of each version directory
    mpc,            \* position of runWatcher's loop and of the Stop it calls
    sigs,           \* signals buffered in sigChan
    watcherClosed,  \* fw.watcher.Close() has run
    stopChanClosed, \* fw.stopChan has been closed
    startPc,        \* position of Start
    errReady,       \* errChan holds the result of Start
    crashed,        \* "no", or the unrecovered panic that ended the process
    srcData,        \* the bytes of each source file
    faults,         \* how many more I/O faults the environment may raise
    att,            \* per worker, the attempts RetryWithBackoff has made (its i)
    delay,          \* per worker, the delay variable of RetryWithBackoff
    waits,          \* per worker, the time.Sleep calls of RetryWithBackoff so far
    lastErr,        \* per worker, the lastErr variable of RetryWithBackoff
    wdst,           \* per worker, the bytes of the destination file of the call
    \* history of the run, read by the properties only
    overlap,        \* the worker's CreateBackup ran while another one for the same file did
    panicked,       \* the workers that ended by a panic
    created,        \* per path, the version names of the calls that returned nil
    clean,          \* per path, every call so far succeeded, alone, with a later timestamp
    enq,            \* ids of the jobs sent to the queue
    dropped,        \* ids of the jobs discarded because the queue was full
    recv,           \* per job id, how many times it was received from the queue
    done,           \* ids of the jobs whose CreateBackup ended
    copies,         \* per job id, how many version files were written for it
    werr,           \* the workers whose last job ended with an error
    atClose,        \* ids of the jobs in the queue when Stop closed it
    evPath,         \* the path of the last notification handleEvent received
    evOp,           \* the Op of the last notification handleEvent received
    jerr            \* per job id, the error its CreateBackup returned

dvars == <<callers, lastBackup, mu, dpc, dev, dchk, nev, watched>>
wvars == <<wpc, wjob, wts, matches, ri>>
rvars == <<att, delay, waits, lastErr, wdst>>
mvars == <<mpc, sigs, watcherClosed, stopChanClosed, startPc, errReady>>
hvars == <<overlap, panicked, created, clean, enq, dropped, recv, done, copies, werr, atClose,
          evPath, evOp, jerr>>
vars == <<now, maxVersions, srcData, faults, kind, queue, closed, dirs, crashed, dvars, wvars,
         rvars, mvars, hvars>>

\* the process is running
Alive == crashed = "no" /\ mpc # "returned"

\* the worker is inside CreateBackup
InBackup(w) == wpc[w] \in {"copy", "glob", "remove"}

InitCommon ==
    /\ now = StartTime
    /\ kind = [p \in Paths |-> IF p = PathD THEN "dir" ELSE "file"]
    /\ watched = {}
    /\ lastBackup = [p \in Paths |-> NoTime]
    /\ mu = "free"
    /\ dpc = [c \in Callers |-> "idle"]
    /\ dev = [c \in Callers |-> NoJob]
    /\ dchk = [c \in Callers |-> 0]
    /\ queue = <<>>
    /\ closed = FALSE
    /\ nev = 0
    /\ wpc = [w \in Workers |-> "idle"]
    /\ wjob = [w \in Workers |-> NoJob]
    /\ wts = [w \in Workers |-> 0]
    /\ matches = [w \in Workers |-> <<>>]
    /\ ri = [w \in Workers |-> 0]
    /\ dirs = [p \in Paths |-> {}]
    /\ mpc = "select"
    /\ sigs = 0
    /\ watcherClosed = FALSE
    /\ stopChanClosed = FALSE
    /\ startPc = "blocked"
    /\ errReady = FALSE
    /\ crashed = "no"
    /\ overlap = [w \in Workers |-> FALSE]
    /\ panicked = {}
    /\ created = [p \in Paths |-> <<>>]
    /\ clean = [p \in Paths |-> TRUE]
    /\ enq = {}
    /\ dropped = {}
    /\ recv = [i \in 1..MaxEvents |-> 0]
    /\ done = {}
    /\ copies = [i \in 1..MaxEvents |-> 0]
    /\ werr = {}
    /\ atClose = {}
    /\ evPath = <<>>
    /\ evOp = {}
    /\ jerr = [i \in 1..MaxEvents |-> NoErr]
    /\ att = [w \in Workers |-> 0]
    /\ delay = [w \in Workers |-> 0]
    /\ waits = [w \in Workers |-> <<>>]
    /\ lastErr = [w \in Workers |-> NilErr]
    /\ wdst = [w \in Workers |-> NoFile]

\* a run without I/O faults, on empty source files
NoFaults == faults = 0 /\ srcData = [p \in Paths |-> <<>>]

\* the program as main.go runs it: watchLoop is the only caller of handleEvent
Init ==
    /\ InitCommon
    /\ maxVersions \in VersionsRange
    /\ callers = {"d1"}
    /\ faults = MaxFaults
    /\ srcData \in [Paths -> Contents]

(***************************************************************************)
(* The environment: the clock and the source tree.                         *)
(***************************************************************************)
Tick ==
    /\ Alive
    /\ now < StartTime + TimeSpan
    /\ now' = now + 1
    /\ UNCHANGED <<maxVersions, srcData, kind, queue, closed, dirs, crashed, dvars, wvars, rvars, faults, mvars, hvars>>

DeleteSource(p) ==
    /\ Alive
    /\ p \in Deletable
    /\ kind[p] = "file"
    /\ kind' = [kind EXCEPT ![p] = "none"]
    /\ UNCHANGED <<now, maxVersions, srcData, queue, closed, dirs, crashed, dvars, wvars, rvars, faults, mvars, hvars>>

(***************************************************************************)
(* The dispatcher: watchLoop, handleEvent, enqueueBackup.                  *)
(***************************************************************************)
\* isDir: os.Lstat succeeds and reports a directory
IsDir(p) == kind[p] = "dir"

\* the branch the switch of handleEvent takes for an Op
EventType(op) ==
    IF "Create" \in op THEN "CREATe"
    ELSE IF "Write" \in op THEN "WRITE"
    ELSE IF "Remove" \in op THEN "REMOVE"
    ELSE IF "Rename" \in op THEN "RENAME"
    ELSE "CHMOD"

\* handleEvent hands the notification to enqueueBackup
Qualifies(p, op) ==
    /\ EventType(op) \in {"CREATe", "WRITE"}
    /\ ~IsDir(p)
    /\ p \notin Ignored

\* enqueueBackup without the mutex
LockIgnored(m) == TRUE

\* fw.mu.Lock() returns when nobody holds the mutex
LockFree(m) == m = "free"

\* the debounce check with <= for <
TooSoonInclusive(last, t) == last # NoTime /\ t - last <= MinInterval

\* exists && time.Since(lastTime) < fw.config.MinInterval
TooSoon(last, t) == last # NoTime /\ t - last < MinInterval

\* a send that never takes the default case
QueueNeverFull(q) == FALSE

\* the send case of the select cannot proceed and default is taken
QueueFull(q) == Len(q) >= QueueCap

\* watchLoop receives a notification and runs handleEvent: the switch, isDir,
\* shouldIgnore, and for a qualifying notification enqueueBackup up to the
\* select: fw.mu.Lock() and the debounce check; on "too soon" the deferred
\* Unlock runs and the call returns
HandleEvent(c, p, op) ==
    /\ Alive
    /\ c \in callers
    /\ dpc[c] = "idle"
    /\ ~watcherClosed
    /\ watched' = IF EventType(op) = "CREATe" /\ IsDir(p) THEN watched \cup {p} ELSE watched
    /\ IF Qualifies(p, op)
       THEN /\ nev < MaxEvents
            /\ LockFree(mu)
            /\ nev' = nev + 1
            /\ IF TooSoon(lastBackup[p], now)
               THEN UNCHANGED <<dpc, dev, mu, dchk>>
               ELSE /\ dpc' = [dpc EXCEPT ![c] = "send"]
                    /\ dchk' = [dchk EXCEPT ![c] = now]
                    /\ dev' = [dev EXCEPT ![c] =
                                 [path |-> p, eventType |-> EventType(op), id |-> nev + 1]]
                    /\ mu' = c
       ELSE UNCHANGED <<nev, dchk, dpc, dev, mu>>
    /\ evPath' = p
    /\ evOp' = op
    /\ UNCHANGED <<now, maxVersions, srcData, kind, queue, closed, dirs, crashed, callers,
                   lastBackup, wvars, rvars, faults, mvars, overlap, panicked, created, clean, enq, dropped,
                   recv, done, copies, werr, atClose, jerr>>

\* the select: a send on the closed channel panics in the watchLoop goroutine,
\* which nothing recovers; otherwise send and record the time, or drop
EnqueueSend(c) ==
    /\ Alive
    /\ dpc[c] = "send"
    /\ dpc' = [dpc EXCEPT ![c] = "idle"]
    /\ dev' = [dev EXCEPT ![c] = NoJob]
    /\ dchk' = [dchk EXCEPT ![c] = 0]
    /\ mu' = "free"
    /\ IF closed
       THEN /\ crashed' = "send on closed channel"
            /\ UNCHANGED <<queue, lastBackup, enq, dropped>>
       ELSE IF ~QueueFull(queue)
       THEN /\ queue' = Append(queue, dev[c])
            /\ lastBackup' = [lastBackup EXCEPT ![dev[c].path] = now]
            /\ enq' = enq \cup {dev[c].id}
            /\ UNCHANGED <<crashed, dropped>>
       ELSE /\ dropped' = dropped \cup {dev[c].id}
            /\ UNCHANGED <<queue, lastBackup, enq, crashed>>
    /\ UNCHANGED <<now, maxVersions, srcData, kind, closed, dirs, callers, nev, watched,
                   wvars, rvars, faults, mvars, overlap, panicked, created, clean, recv, done,
                   copies, werr, atClose, evPath, evOp, jerr>>

(***************************************************************************)
(* The worker pool: backupWorker, CreateBackup, cleanOldVersions.          *)
(***************************************************************************)
\* a receive that leaves the job in the channel
DequeuePeek(q) == q

\* what a receive leaves in the channel
Dequeue(q) == Tail(q)

\* len(matches) <= bm.maxVersions: nothing to remove
WithinCap(n) == n <= maxVersions

\* a pass that removes everything it listed
ToRemoveAll(n) == n

\* toRemove := len(matches) - bm.maxVersions
ToRemove(n) == n - maxVersions

\* the entry of the sorted listing the i-th iteration removes (i from 0)
Victim(m, i) == m[i + 1]

\* a classification that retries everything
IsRetryableAlways(e) == TRUE

\* IsRetryable: errors.As finds the *BackupError and returns its Retryable
IsRetryable(e) == e.retryable

\* a loop that never takes an attempt for the last one
LastAttemptNever(i) == FALSE

\* i < maxRetries-1 fails: the attempt numbered i (from 0) is the last one
LastAttempt(i) == i >= MaxRetries - 1

\* a loop that sleeps the same delay before every retry
NextDelayConstant(d) == d

\* delay *= 2
NextDelay(d) == d * 2

\* a loop that keeps the error of its first failed attempt
KeepFirstErr(old, e) == IF old = NilErr THEN e ELSE old

\* lastErr = err
SetLastErr(old, e) == e

\* fmt.Errorf("exceed max retries (%d): %w", maxRetries, lastErr)
Exceeded(e) == [e EXCEPT !.exceeded = TRUE]

\* srcFile.Read(buf) at offset off: up to len(buf) bytes, none at the end (io.EOF)
ReadChunk(src, off) ==
    SubSeq(src, off + 1, IF off + ChunkSize <= Len(src) THEN off + ChunkSize ELSE Len(src))

\* number of reads that return bytes
NumChunks(src) == (Len(src) + ChunkSize - 1) \div ChunkSize

\* a loop that stops at the first short read without writing it
RECURSIVE CopyLoopDropsTail(_, _, _, _, _)
CopyLoopDropsTail(src, off, dst, f, k) ==
    LET buf == ReadChunk(src, off)
    IN  IF f = "read" /\ k = 0 THEN [dst |-> dst, op |-> "read"]
        ELSE IF Len(buf) < ChunkSize THEN [dst |-> dst, op |-> ""]
        ELSE IF f = "write" /\ k = 0 THEN [dst |-> dst, op |-> "write"]
        ELSE CopyLoopDropsTail(src, off + Len(buf), dst \o buf, f, k - 1)

\* the read/write loop of SafeCopyFile from offset off, with dst written so
\* far; the fault f strikes in the iteration that starts with k = 0
RECURSIVE CopyLoop(_, _, _, _, _)
CopyLoop(src, off, dst, f, k) ==
    LET buf == ReadChunk(src, off)
    IN  IF f = "read" /\ k = 0 THEN [dst |-> dst, op |-> "read"]
        ELSE IF Len(buf) > 0 /\ f = "write" /\ k = 0 THEN [dst |-> dst, op |-> "write"]
        ELSE IF Len(buf) = 0 THEN [dst |-> dst, op |-> ""]
        ELSE CopyLoop(src, off + Len(buf), dst \o buf, f, k - 1)

\* one call of the closure SafeCopyFile passes to RetryWithBackoff, as attempt
\* number a, on a source of the given kind and bytes, with the destination
\* file as the attempts before left it: its error and the destination after
Attempt(knd, src, old, f, k, a) ==
    IF knd = "none" THEN [err |-> Err("copy", "stat_source", FALSE, a, FALSE), dst |-> old]
    ELSE IF f = "stat_perm" THEN [err |-> Err("copy", "stat_source", TRUE, a, FALSE), dst |-> old]
    ELSE IF knd = "dir" THEN [err |-> Err("copy", "check_type", FALSE, a, FALSE), dst |-> old]
    ELSE IF f = "create_perm"
    THEN [err |-> Err("copy", "create_destination", TRUE, a, FALSE), dst |-> old]
    ELSE IF f = "create_fatal"
    THEN [err |-> Err("copy", "create_destination", FALSE, a, FALSE), dst |-> old]
    ELSE LET r == CopyLoop(src, 0, <<>>, f, k)
         IN  [err |-> IF r.op = "" THEN NilErr ELSE Err("copy", r.op, TRUE, a, FALSE),
              dst |-> r.dst]

\* CreateBackup returns e to the loop of backupWorker (NilErr for nil), which
\* logs an error and goes on to the next job
Finish(w, e) ==
    LET p == wjob[w].path
        name == BackupName(p, wts[w])
    IN  /\ wpc' = [wpc EXCEPT ![w] = "idle"]
        /\ overlap' = [overlap EXCEPT ![w] = FALSE]
        /\ done' = done \cup {wjob[w].id}
        /\ jerr' = [jerr EXCEPT ![wjob[w].id] = e]
        /\ werr' = IF e = NilErr THEN werr \ {w} ELSE werr \cup {w}
        /\ wjob' = [wjob EXCEPT ![w] = NoJob]
        /\ wts' = [wts EXCEPT ![w] = 0]
        /\ matches' = [matches EXCEPT ![w] = <<>>]
        /\ ri' = [ri EXCEPT ![w] = 0]
        /\ delay' = [delay EXCEPT ![w] = 0]
        /\ wdst' = [wdst EXCEPT ![w] = NoFile]
        /\ IF e = NilErr
           THEN /\ created' = [created EXCEPT ![p] = Append(@, name)]
                /\ clean' = [clean EXCEPT ![p] =
                       @ /\ (created[p] = <<>> \/ StrLess(created[p][Len(created[p])], name))]
           ELSE /\ clean' = [clean EXCEPT ![p] = FALSE]
                /\ UNCHANGED created

\* a panic inside CreateBackup unwinds the loop of backupWorker; the deferred
\* HandlePanic recovers it and the deferred workerWg.Done() runs: the goroutine ends
Panic(w) ==
    /\ wpc' = [wpc EXCEPT ![w] = "exited"]
    /\ panicked' = panicked \cup {w}
    /\ werr' = werr \ {w}
    /\ overlap' = [overlap EXCEPT ![w] = FALSE]
    /\ done' = done \cup {wjob[w].id}
    /\ jerr' = [jerr EXCEPT ![wjob[w].id] = Err("panic", "index", FALSE, 0, FALSE)]
    /\ clean' = [clean EXCEPT ![wjob[w].path] = FALSE]
    /\ wjob' = [wjob EXCEPT ![w] = NoJob]
    /\ wts' = [wts EXCEPT ![w] = 0]
    /\ matches' = [matches EXCEPT ![w] = <<>>]
    /\ ri' = [ri EXCEPT ![w] = 0]
    /\ delay' = [delay EXCEPT ![w] = 0]
    /\ wdst' = [wdst EXCEPT ![w] = NoFile]
    /\ UNCHANGED created

\* for job := range fw.backupQueue: receive a job and run CreateBackup up to
\* the call of SafeCopyFile: os.Stat of the source, the timestamp, the names,
\* MkdirAll, and the entry of RetryWithBackoff
WorkerDequeue(w) ==
    /\ Alive
    /\ wpc[w] = "idle"
    /\ queue # <<>>
    /\ LET j == Head(queue)
           busy == {v \in Workers \ {w} : InBackup(v) /\ wjob[v].path = j.path}
           gone == kind[j.path] = "none"
       IN  /\ recv' = [recv EXCEPT ![j.id] = @ + 1]
           /\ overlap' = IF gone THEN overlap
                          ELSE [v \in Workers |-> IF v = w THEN busy # {}
                                                  ELSE IF v \in busy THEN TRUE ELSE overlap[v]]
           /\ clean' = IF busy # {} \/ gone THEN [clean EXCEPT ![j.path] = FALSE] ELSE clean
           /\ done' = IF gone THEN done \cup {j.id} ELSE done
           /\ jerr' = IF gone
                      THEN [jerr EXCEPT ![j.id] = Err("source", "stat", FALSE, 0, FALSE)]
                      ELSE jerr
           /\ werr' = IF gone THEN werr \cup {w} ELSE werr
           /\ wjob' = [wjob EXCEPT ![w] = IF gone THEN NoJob ELSE j]
           /\ wts' = [wts EXCEPT ![w] = IF gone THEN 0 ELSE now]
           /\ wpc' = [wpc EXCEPT ![w] = IF gone THEN "idle" ELSE "copy"]
           /\ delay' = [delay EXCEPT ![w] = IF gone THEN 0 ELSE InitialDelay]
    /\ att' = [att EXCEPT ![w] = 0]
    /\ waits' = [waits EXCEPT ![w] = <<>>]
    /\ queue' = Dequeue(queue)
    /\ UNCHANGED <<now, maxVersions, srcData, faults, kind, closed, dirs, crashed, dvars, mvars,
                   matches, ri, lastErr, wdst, panicked, created, enq, dropped, copies,
                   atClose, evPath, evOp>>

\* the range loop ends: the channel is closed and empty
WorkerExit(w) ==
    /\ Alive
    /\ wpc[w] = "idle"
    /\ queue = <<>>
    /\ closed
    /\ wpc' = [wpc EXCEPT ![w] = "exited"]
    /\ UNCHANGED <<now, maxVersions, srcData, faults, kind, queue, closed, dirs, crashed, dvars,
                   mvars, wjob, wts, matches, ri, rvars, hvars>>

\* utils.SafeCopyFile: one iteration of the loop of RetryWithBackoff. The
\* attempt runs; nil ends the loop and CreateBackup goes on to cleanOldVersions;
\* an error that is not retryable, or the one of the last attempt, ends
\* CreateBackup with "error copying file"; otherwise time.Sleep(delay),
\* delay *= 2 and the next iteration. An attempt that got past os.Create
\* leaves the destination file with what it wrote.
SafeCopyFile(w) ==
    /\ Alive
    /\ wpc[w] = "copy"
    /\ \E f \in {"none"} \cup (IF faults > 0 /\ kind[wjob[w].path] = "file"
                               THEN FaultKinds ELSE {}) :
       \E k \in 0..NumChunks(srcData[wjob[w].path]) :
          LET p == wjob[w].path
              i == att[w]
              r == Attempt(kind[p], srcData[p], wdst[w], f, k, i + 1)
              name == BackupName(p, wts[w])
          IN  /\ f \notin {"write", "read"} => k = 0
              /\ f = "write" => k < NumChunks(srcData[p])
              /\ faults' = IF f = "none" THEN faults ELSE faults - 1
              /\ att' = [att EXCEPT ![w] = i + 1]
              /\ dirs' = IF r.dst = NoFile THEN dirs ELSE [dirs EXCEPT ![p] = @ \cup {name}]
              /\ IF r.err = NilErr
                 THEN /\ wpc' = [wpc EXCEPT ![w] = "glob"]
                      /\ wdst' = [wdst EXCEPT ![w] = r.dst]
                      /\ copies' = [copies EXCEPT ![wjob[w].id] = @ + 1]
                      /\ lastErr' = [lastErr EXCEPT ![w] = NilErr]
                      /\ UNCHANGED <<wjob, wts, matches, ri, delay, waits, overlap,
                                     created, clean, done, werr, jerr>>
                 ELSE IF ~IsRetryable(r.err)
                 THEN /\ Finish(w, r.err)
                      /\ lastErr' = [lastErr EXCEPT ![w] = NilErr]
                      /\ UNCHANGED <<waits, copies>>
                 ELSE IF LastAttempt(i)
                 THEN /\ Finish(w, Exceeded(SetLastErr(lastErr[w], r.err)))
                      /\ lastErr' = [lastErr EXCEPT ![w] = NilErr]
                      /\ UNCHANGED <<waits, copies>>
                 ELSE /\ lastErr' = [lastErr EXCEPT ![w] = SetLastErr(@, r.err)]
                      /\ waits' = [waits EXCEPT ![w] = Append(@, delay[w])]
                      /\ delay' = [delay EXCEPT ![w] = NextDelay(@)]
                      /\ wdst' = [wdst EXCEPT ![w] = r.dst]
                      /\ UNCHANGED <<wpc, wjob, wts, matches, ri, overlap, created, clean,
                                     done, werr, jerr, copies>>
    /\ UNCHANGED <<now, maxVersions, srcData, kind, queue, closed, crashed, dvars, mvars,
                   panicked, enq, dropped, recv, atClose, evPath, evOp>>

\* cleanOldVersions up to the loop: the listing, the length check, the sort
CleanGlob(w) ==
    /\ Alive
    /\ wpc[w] = "glob"
    /\ LET m == SortStrings(Glob(wjob[w].path, dirs))
       IN  IF WithinCap(Len(m))
           THEN Finish(w, NilErr)
           ELSE /\ matches' = [matches EXCEPT ![w] = m]
                /\ ri' = [ri EXCEPT ![w] = 0]
                /\ wpc' = [wpc EXCEPT ![w] = "remove"]
                /\ UNCHANGED <<wjob, wts, delay, wdst, overlap, created, clean, done, werr,
                               jerr>>
    /\ UNCHANGED <<now, maxVersions, srcData, faults, kind, queue, closed, dirs, crashed, dvars,
                   mvars, att, waits, lastErr, panicked, enq, dropped, recv, copies, atClose,
                   evPath, evOp>>

\* one iteration of the loop of cleanOldVersions: matches[i] out of range
\* panics; os.Remove of a file that is gone, or one the environment makes
\* fail, returns an error
CleanRemove(w) ==
    /\ Alive
    /\ wpc[w] = "remove"
    /\ IF ri[w] >= Len(matches[w])
       THEN /\ Panic(w)
            /\ UNCHANGED <<dirs, faults>>
       ELSE LET v == Victim(matches[w], ri[w])
            IN  IF v.name \in dirs[v.dir]
                THEN \/ /\ dirs' = [dirs EXCEPT ![v.dir] = @ \ {v.name}]
                        /\ UNCHANGED <<panicked, faults>>
                        /\ IF ri[w] + 1 >= ToRemove(Len(matches[w]))
                           THEN Finish(w, NilErr)
                           ELSE /\ ri' = [ri EXCEPT ![w] = @ + 1]
                                /\ UNCHANGED <<wpc, wjob, wts, matches, delay, wdst, overlap,
                                               created, clean, done, werr, jerr>>
                     \/ /\ faults > 0
                        /\ faults' = faults - 1
                        /\ Finish(w, Err("clean", "remove", FALSE, 0, FALSE))
                        /\ UNCHANGED <<dirs, panicked>>
                ELSE /\ Finish(w, Err("clean", "remove", FALSE, 0, FALSE))
                     /\ UNCHANGED <<dirs, panicked, faults>>
    /\ UNCHANGED <<now, maxVersions, srcData, kind, queue, closed, crashed, dvars, mvars,
                   att, waits, lastErr, enq, dropped, recv, copies, atClose, evPath, evOp>>

(***************************************************************************)
(* The lifecycle: runWatcher's loop, Stop, Start.                          *)
(***************************************************************************)
\* the OS delivers SIGINT or SIGTERM; sigChan buffers one
SignalArrive ==
    /\ Alive
    /\ sigs = 0
    /\ sigs' = 1
    /\ UNCHANGED <<now, maxVersions, srcData, kind, queue, closed, dirs, crashed, dvars, wvars, rvars, faults, hvars,
                   mpc, watcherClosed, stopChanClosed, startPc, errReady>>

\* case <-sigChan: ticker.Stop() and the call of fw.Stop()
MainSignal ==
    /\ Alive
    /\ mpc = "select"
    /\ sigs = 1
    /\ sigs' = 0
    /\ mpc' = "close"
    /\ UNCHANGED <<now, maxVersions, srcData, kind, queue, closed, dirs, crashed, dvars, wvars, rvars, faults, hvars,
                   watcherClosed, stopChanClosed, startPc, errReady>>

\* Stop: close(fw.backupQueue); closing it again panics in the main goroutine
StopCloseQueue ==
    /\ Alive
    /\ mpc = "close"
    /\ IF closed
       THEN /\ crashed' = "close of closed channel"
            /\ UNCHANGED <<closed, mpc, atClose>>
       ELSE /\ closed' = TRUE
            /\ mpc' = "wait"
            /\ atClose' = {queue[i].id : i \in 1..Len(queue)}
            /\ UNCHANGED crashed
    /\ UNCHANGED <<now, maxVersions, srcData, kind, queue, dirs, dvars, wvars, rvars, faults,
                   overlap, panicked, created, clean, enq, dropped, recv, done, copies, werr,
                   evPath, evOp, jerr, sigs, watcherClosed, stopChanClosed, startPc, errReady>>

\* every worker goroutine has run its deferred workerWg.Done()
AllWorkersDone == \A w \in Workers : wpc[w] = "exited"

\* Stop: fw.workerWg.Wait() returns when every worker has called Done
StopWait ==
    /\ Alive
    /\ mpc = "wait"
    /\ AllWorkersDone
    /\ mpc' = "wclose"
    /\ UNCHANGED <<now, maxVersions, srcData, kind, queue, closed, dirs, crashed, dvars, wvars, rvars, faults, hvars,
                   sigs, watcherClosed, stopChanClosed, startPc, errReady>>

\* Stop: fw.watcher.Close()
StopCloseWatcher ==
    /\ Alive
    /\ mpc = "wclose"
    /\ watcherClosed' = TRUE
    /\ mpc' = "stopchan"
    /\ UNCHANGED <<now, maxVersions, srcData, kind, queue, closed, dirs, crashed, dvars, wvars, rvars, faults, hvars,
                   sigs, stopChanClosed, startPc, errReady>>

\* Stop: close(fw.stopChan), and the return to the loop of runWatcher
StopCloseStopChan ==
    /\ Alive
    /\ mpc = "stopchan"
    /\ stopChanClosed' = TRUE
    /\ mpc' = "select"
    /\ UNCHANGED <<now, maxVersions, srcData, kind, queue, closed, dirs, crashed, dvars, wvars, rvars, faults, hvars,
                   sigs, watcherClosed, startPc, errReady>>

\* Start: <-fw.stopChan returns, and the goroutine of runWatcher sends to errChan
StartReturn ==
    /\ Alive
    /\ startPc = "blocked"
    /\ stopChanClosed
    /\ startPc' = "returned"
    /\ errReady' = TRUE
    /\ UNCHANGED <<now, maxVersions, srcData, kind, queue, closed, dirs, crashed, dvars, wvars, rvars, faults, hvars,
                   mpc, sigs, watcherClosed, stopChanClosed>>

\* case err := <-errChan: runWatcher returns and the process ends
MainErr ==
    /\ Alive
    /\ mpc = "select"
    /\ errReady
    /\ mpc' = "returned"
    /\ UNCHANGED <<now, maxVersions, srcData, kind, queue, closed, dirs, crashed, dvars, wvars, rvars, faults, hvars,
                   sigs, watcherClosed, stopChanClosed, startPc, errReady>>

Next ==
    \/ Tick
    \/ \E p \in Deletable : DeleteSource(p)
    \/ \E c \in Callers, p \in Paths, op \in Ops : HandleEvent(c, p, op)
    \/ \E c \in Callers : EnqueueSend(c)
    \/ \E w \in Workers : WorkerDequeue(w)
    \/ \E w \in Workers : WorkerExit(w)
    \/ \E w \in Workers : SafeCopyFile(w)
    \/ \E w \in Workers : CleanGlob(w)
    \/ \E w \in Workers : CleanRemove(w)
    \/ SignalArrive
    \/ MainSignal
    \/ StopCloseQueue
    \/ StopWait
    \/ StopCloseWatcher
    \/ StopCloseStopChan
    \/ StartReturn
    \/ MainErr

Spec == Init /\ [][Next]_vars

(***************************************************************************)
(* The versioning engine under the pipeline: valid version caps, no        *)
(* shutdown, the sources stay.                                             *)
(***************************************************************************)
InitStore == InitCommon /\ maxVersions \in {1, 2} /\ callers = {"d1"} /\ NoFaults

NextStore ==
    \/ Tick
    \/ \E c \in Callers, p \in Files, op \in FileOps : HandleEvent(c, p, op)
    \/ \E c \in Callers : EnqueueSend(c)
    \/ \E w \in Workers : WorkerDequeue(w)
    \/ \E w \in Workers : SafeCopyFile(w)
    \/ \E w \in Workers : CleanGlob(w)
    \/ \E w \in Workers : CleanRemove(w)

SpecStore == InitStore /\ [][NextStore]_vars

(***************************************************************************)
(* The debounce contract with several goroutines calling handleEvent.      *)
(***************************************************************************)
InitDebounce == InitCommon /\ maxVersions = 1 /\ callers = Callers /\ NoFaults

SpecDebounce == InitDebounce /\ [][NextStore]_vars

(***************************************************************************)
(* The lifecycle at one instant of the clock: the pool, the queue, the     *)
(* shutdown, a vanishing source, and a version cap the CLI lets through.   *)
(***************************************************************************)
InitLife == InitCommon /\ maxVersions \in {-1, 1} /\ callers = {"d1"} /\ NoFaults

NextLife ==
    \/ \E p \in Deletable : DeleteSource(p)
    \/ \E c \in Callers, p \in Files, op \in FileOps : HandleEvent(c, p, op)
    \/ \E c \in Callers : EnqueueSend(c)
    \/ \E w \in Workers : WorkerDequeue(w)
    \/ \E w \in Workers : WorkerExit(w)
    \/ \E w \in Workers : SafeCopyFile(w)
    \/ \E w \in Workers : CleanGlob(w)
    \/ \E w \in Workers : CleanRemove(w)
    \/ SignalArrive
    \/ MainSignal
    \/ StopCloseQueue
    \/ StopWait
    \/ StopCloseWatcher
    \/ StopCloseStopChan
    \/ StartReturn
    \/ MainErr

SpecLife == InitLife /\ [][NextLife]_vars

\* the scheduler lets every goroutine that can take a step take one
SpecLifeFair == SpecLife /\ WF_vars(NextLife)

(***************************************************************************)
(* The copy under I/O faults: RetryWithBackoff, the chunked loop, a source *)
(* that vanishes, an eviction that fails, for backups of a.txt.            *)
(***************************************************************************)
InitCopy ==
    /\ InitCommon
    /\ maxVersions = 1
    /\ callers = {"d1"}
    /\ faults = MaxFaults
    /\ srcData = [p \in Paths |-> IF p = PathA THEN [i \in 1..(ChunkSize + 1) |-> i] ELSE <<>>]

NextCopy ==
    \/ Tick
    \/ \E p \in Deletable : DeleteSource(p)
    \/ \E c \in Callers, op \in FileOps : HandleEvent(c, PathA, op)
    \/ \E c \in Callers : EnqueueSend(c)
    \/ \E w \in Workers : WorkerDequeue(w)
    \/ \E w \in Workers : SafeCopyFile(w)
    \/ \E w \in Workers : CleanGlob(w)
    \/ \E w \in Workers : CleanRemove(w)

SpecCopy == InitCopy /\ [][NextCopy]_vars

(***************************************************************************)
(* One backup of a.txt, for every length of the file and every fault.      *)
(***************************************************************************)
InitChunk ==
    /\ InitCommon
    /\ maxVersions = 1
    /\ callers = {"d1"}
    /\ faults = MaxFaults
    /\ \E c \in Contents : srcData = [p \in Paths |-> IF p = PathA THEN c ELSE <<>>]

NextChunk ==
    \/ \E c \in Callers, op \in FileOps : HandleEvent(c, PathA, op)
    \/ \E c \in Callers : EnqueueSend(c)
    \/ \E w \in Workers : WorkerDequeue(w)
    \/ \E w \in Workers : SafeCopyFile(w)
    \/ \E w \in Workers : CleanGlob(w)

SpecChunk == InitChunk /\ [][NextChunk]_vars

(***************************************************************************)
(* The dispatcher alone, on every kind of notification and path.           *)
(***************************************************************************)
NextEvents ==
    \/ Tick
    \/ \E c \in Callers, p \in Paths, op \in Ops : HandleEvent(c, p, op)
    \/ \E c \in Callers : EnqueueSend(c)

SpecEvents == InitStore /\ [][NextEvents]_vars

(***************************************************************************)
(* The contract.                                                           *)
(***************************************************************************)

\* C1 (version cap): with maxVersions >= 1, a CreateBackup call that ran alone
\* on its file and returns nil leaves at most maxVersions version files in the
\* version directory of that file.
VersionCap ==
    [][\A w \in Workers :
          (/\ InBackup(w)
           /\ wpc'[w] = "idle"
           /\ w \notin werr'
           /\ ~overlap[w]
           /\ maxVersions >= 1)
          => Cardinality(dirs'[wjob[w].path]) <= maxVersions]_vars

\* C2 (eviction keeps the newest): while every backup of a file succeeded,
\* alone and with a later timestamp than the one before, a backup that returns
\* leaves exactly the min(k, maxVersions) most recently created versions of the
\* k created, and every removal takes the oldest version present.
EvictionKeepsNewest ==
    [][/\ \A w \in Workers :
            LET p == wjob[w].path
                k == Len(created'[p])
                kept == IF k <= maxVersions THEN k ELSE maxVersions
            IN  (/\ InBackup(w)
                 /\ wpc'[w] = "idle"
                 /\ w \notin werr'
                 /\ clean'[p]
                 /\ maxVersions >= 1)
                => dirs'[p] = {created'[p][i] : i \in (k - kept + 1)..k}
       /\ \A q \in Files :
            (clean[q] /\ dirs'[q] # dirs[q] /\ dirs'[q] \subseteq dirs[q])
            => \A gone \in dirs[q] \ dirs'[q] : \A n \in dirs'[q] : StrLess(gone, n)]_vars

\* C3 (debounce is atomic per path): with several goroutines in enqueueBackup,
\* a job is sent only while the debounce check its caller made still holds of
\* lastBackup, at most one caller is between its check and its send, and two
\* accepted jobs of one path are at least minInterval apart.
DebounceAtomic ==
    [][/\ \A c \in callers :
            (dpc[c] = "send" /\ dpc'[c] = "idle" /\ enq' # enq)
            => LET p == dev[c].path
               IN  /\ lastBackup[p] = NoTime \/ dchk[c] - lastBackup[p] >= MinInterval
                   /\ lastBackup[p] = NoTime \/ lastBackup'[p] - lastBackup[p] >= MinInterval
       /\ Cardinality({c \in callers : dpc'[c] = "send"}) <= 1]_vars

\* a second job of a path is about to be sent by one of two concurrent callers
DebounceAtomicWitness ==
    /\ callers = Callers
    /\ \E c \in callers :
          /\ dpc[c] = "send"
          /\ mu = c
          /\ lastBackup[dev[c].path] # NoTime
          /\ enq # {}

QueueBackpressure ==
    [][/\ Len(queue') <= QueueCap
       /\ \A c \in callers :
            /\ (Alive /\ dpc[c] = "send") => ENABLED EnqueueSend(c)
            /\ (dpc[c] = "send" /\ dpc'[c] = "idle" /\ Len(queue) >= QueueCap)
               => /\ queue' = queue
                  /\ lastBackup' = lastBackup
                  /\ dropped' = dropped \cup {dev[c].id}
                  /\ enq' = enq
                  /\ crashed' = "no"
       /\ ((\A i \in 1..MaxEvents : recv'[i] = 0) /\ \A c \in callers : dpc'[c] = "idle")
          => LET k == Cardinality(enq' \cup dropped')
                 q == IF k <= QueueCap THEN k ELSE QueueCap
             IN  /\ Len(queue') = q
                 /\ Cardinality(dropped') = k - q
                 /\ enq' \cap dropped' = {}
                 /\ crashed' = "no"]_vars

\* more jobs were offered than the queue holds while no worker took any
QueueBackpressureWitness ==
    /\ dropped # {}
    /\ Len(queue) = QueueCap
    /\ \A i \in 1..MaxEvents : recv[i] = 0
    /\ \A c \in callers : dpc[c] = "idle"

\* C6 (exactly-once consumption): a job sent to the queue is in the queue or
\* was received exactly once, never both; a received job is held by exactly
\* one worker inside CreateBackup or its CreateBackup has ended, never both.
ExactlyOnce ==
    \A i \in 1..MaxEvents :
        LET inQueue == \E n \in 1..Len(queue) : queue[n].id = i
            holders == {w \in Workers : wjob[w].id = i}
        IN  /\ recv[i] <= 1
            /\ Cardinality(holders) <= 1
            /\ Cardinality({n \in 1..Len(queue) : queue[n].id = i}) <= 1
            /\ i \in enq <=> (inQueue \/ recv[i] = 1)
            /\ ~(inQueue /\ recv[i] = 1)
            /\ recv[i] = 1 <=> (holders # {} \/ i \in done)
            /\ ~(holders # {} /\ i \in done)
            /\ \A w \in holders : InBackup(w)

\* two workers run CreateBackup at once, each for its own job
ExactlyOnceWitness ==
    \E v, w \in Workers :
        /\ v # w
        /\ InBackup(v)
        /\ InBackup(w)
        /\ wjob[v].id # wjob[w].id

\* C7 (shutdown drains before completing): if no worker ended by a panic, Stop
\* goes past its Wait only when every worker has left its loop with the queue
\* empty and every job that was queued at the close has been processed, and
\* the process never ends with such a job unprocessed or a job in progress.
ShutdownDrains ==
    panicked = {} =>
        /\ (mpc \in {"wclose", "stopchan"} \/ watcherClosed \/ stopChanClosed)
           => /\ AllWorkersDone
              /\ queue = <<>>
              /\ atClose \subseteq done
        /\ ~Alive
           => /\ atClose \subseteq done
              /\ \A w \in Workers : ~InBackup(w)

\* C8 (no enqueue after close): once the queue is closed, an enqueue attempt
\* of the dispatcher adds nothing to the queue and raises no fault.
NoEnqueueAfterClose ==
    [][\A c \in callers :
          (closed /\ dpc[c] = "send" /\ dpc'[c] = "idle")
          => /\ queue' = queue
             /\ crashed' = crashed]_vars

\* C9 (per-job fault isolation): a panic raised while a worker processes a job
\* leaves that worker in its loop, ready for the next job, and the number of
\* live workers as it was.
FaultIsolation ==
    [][\A w \in Workers :
          (w \in panicked' /\ w \notin panicked)
          => /\ wpc'[w] = "idle"
             /\ {v \in Workers : wpc'[v] # "exited"} = {v \in Workers : wpc[v] # "exited"}]_vars

\* C10 (a failed backup never stops a worker): a worker whose CreateBackup
\* returns an error is back at the receive with the job gone from the queue,
\* and a worker leaves its loop only when the queue is closed and empty.
FailedBackupNeverStops ==
    [][\A w \in Workers :
          /\ ((InBackup(w) /\ ~InBackup(w)' /\ w \in werr') \/ (w \in werr' /\ w \notin werr))
             => /\ wpc'[w] = "idle"
                /\ wjob'[w] = NoJob
          /\ (wpc[w] # "exited" /\ wpc'[w] = "exited")
             => (closed /\ queue = <<>>)]_vars

\* C11 (Stop terminates and releases Start): Start returns only after Stop has
\* closed the stop channel, and under fair scheduling a Stop that has closed
\* the queue eventually closes the stop channel and returns.
StopTerminates ==
    /\ [](startPc = "returned" => stopChanClosed)
    /\ (closed ~> (stopChanClosed /\ mpc # "stopchan"))

\* C12 (interleaved backups of the same file converge): with maxVersions >= 1,
\* a CreateBackup call that ran while another one for the same file did, on a
\* source that exists and with no I/O fault raised, returns nil, and once no
\* call for the file is running the version directory holds at most
\* maxVersions files.
InterleavedConverge ==
    [][\A w \in Workers :
          LET p == wjob[w].path
          IN  (/\ InBackup(w)
               /\ ~InBackup(w)'
               /\ overlap[w]
               /\ maxVersions >= 1
               /\ kind[p] = "file"
               /\ faults' = MaxFaults)
              => /\ w \notin werr'
                 /\ w \notin panicked'
                 /\ (\A v \in Workers : ~(InBackup(v)' /\ wjob'[v].path = p))
                    => Cardinality(dirs'[p]) <= maxVersions]_vars

\* C13 (copy is faithful): when an attempt of SafeCopyFile succeeds, the
\* destination file exists and holds exactly the bytes of the source, in
\* order, whatever the length of the source and whatever earlier attempts of
\* the call left in the destination.
CopyFaithful ==
    [][\A w \in Workers :
          (wpc[w] = "copy" /\ wpc'[w] = "glob")
          => /\ wdst'[w] = srcData[wjob[w].path]
             /\ BackupName(wjob[w].path, wts[w]) \in dirs'[wjob[w].path]]_vars

\* a file of several chunks and a tail was copied by the attempt that followed
\* one that failed in the middle of the file
CopyFaithfulWitness ==
    \E w \in Workers :
        /\ wpc[w] = "glob"
        /\ att[w] > 1
        /\ Len(wdst[w]) > 2 * ChunkSize
        /\ Len(wdst[w]) % ChunkSize # 0

\* C14 (vanished source): a job whose source is gone when the worker receives
\* it ends at once with the not-found error of CreateBackup; one whose source
\* is gone at the first attempt of the copy ends after that single attempt with
\* a not-found error that is not retryable, without any wait; in both cases
\* the version directories are as they were.
VanishedSource ==
    [][/\ \A i \in 1..MaxEvents :
            (recv'[i] = recv[i] + 1 /\ kind[Head(queue).path] = "none")
            => /\ i \in done'
               /\ jerr'[i] = Err("source", "stat", FALSE, 0, FALSE)
               /\ dirs' = dirs
               /\ \A w \in Workers : wjob'[w].id # i
       /\ \A w \in Workers :
            (/\ wpc[w] = "copy"
             /\ att[w] = 0
             /\ att'[w] = 1
             /\ kind[wjob[w].path] = "none")
            => /\ wpc'[w] = "idle"
               /\ waits'[w] = <<>>
               /\ dirs' = dirs
               /\ jerr'[wjob[w].id] = Err("copy", "stat_source", FALSE, 1, FALSE)]_vars

\* a.txt was deleted while its job was queued, or between the check of
\* CreateBackup and the copy
VanishedSourceWitness ==
    /\ kind[PathA] = "none"
    /\ \E i, j \in 1..MaxEvents :
          /\ jerr[i].stage = "source"
          /\ jerr[j].op = "stat_source"
          /\ dirs[PathA] = {}

\* C15 (retry is bounded and stops on fatal errors): RetryWithBackoff makes at
\* most MaxRetries attempts; the first attempt that returns nil ends it with
\* success; an attempt on a missing source or a directory, or any attempt whose
\* error is not retryable, ends it at once with that very error and no wait;
\* another attempt follows only an error that is retryable.
RetryBounded ==
    [][\A w \in Workers :
          /\ att'[w] <= MaxRetries
          /\ (wpc[w] = "copy" /\ att'[w] = att[w] + 1)
             => LET id == wjob[w].id
                    e == jerr'[id]
                IN  /\ wpc'[w] \in {"copy", "glob", "idle"}
                    /\ wpc'[w] = "glob"
                       => (waits'[w] = waits[w] /\ id \notin done')
                    /\ kind[wjob[w].path] # "file"
                       => (wpc'[w] = "idle" /\ ~e.retryable /\ ~e.exceeded)
                    /\ (wpc'[w] = "idle" /\ ~e.exceeded)
                       => /\ ~e.retryable
                          /\ e.stage = "copy"
                          /\ e.op \in {"stat_source", "check_type", "create_destination"}
                          /\ e.attempt = att'[w]
                          /\ waits'[w] = waits[w]
                    /\ (wpc'[w] = "idle" /\ e.exceeded)
                       => (e.retryable /\ att'[w] = MaxRetries /\ waits'[w] = waits[w])
                    /\ wpc'[w] = "copy"
                       => /\ lastErr'[w].retryable
                          /\ lastErr'[w].op \in {"stat_source", "create_destination",
                                                 "write", "read"}
                          /\ att'[w] < MaxRetries
                          /\ Len(waits'[w]) = Len(waits[w]) + 1]_vars

\* a copy that failed retryably once ended at its second attempt on a fatal error
RetryBoundedWitness ==
    \E i \in 1..MaxEvents :
        /\ jerr[i].op = "create_destination"
        /\ ~jerr[i].retryable
        /\ jerr[i].attempt = 2

\* C16 (exhausted retries surface the last cause): when the last of MaxRetries
\* attempts fails with a retryable error, as the ones before it did, the copy
\* ends with the aggregate error, which wraps the error of that last attempt;
\* CreateBackup returns it as a copy error, the job is over, and the worker is
\* back at the queue with nothing panicked and the process running.
ExhaustedSurfacesLast ==
    [][\A w \in Workers :
          (wpc[w] = "copy" /\ att[w] = MaxRetries - 1 /\ att'[w] = MaxRetries
             /\ wpc'[w] # "glob" /\ jerr'[wjob[w].id].retryable)
          => LET id == wjob[w].id
                 e == jerr'[id]
             IN  /\ e.exceeded
                 /\ e.stage = "copy"
                 /\ e.attempt = MaxRetries
                 /\ lastErr[w].retryable
                 /\ lastErr[w].attempt = MaxRetries - 1
                 /\ Len(waits[w]) = MaxRetries - 1
                 /\ id \in done'
                 /\ w \in werr'
                 /\ wpc'[w] = "idle"
                 /\ w \notin panicked'
                 /\ crashed' = "no"]_vars

\* a job ended on the aggregate error after a create failure and then a
\* different failure at the last attempt
ExhaustedSurfacesLastWitness ==
    \E i \in 1..MaxEvents, w \in Workers :
        /\ jerr[i].exceeded
        /\ jerr[i].op = "write"
        /\ i \in done
        /\ wpc[w] = "idle"
        /\ att[w] = MaxRetries

\* C17 (eviction failure does not roll back): when os.Remove of an excess
\* version fails in the eviction that follows a successful copy, CreateBackup
\* returns an error and the version file that this call wrote is still in the
\* version directory.
EvictionNoRollback ==
    [][\A w \in Workers :
          LET p == wjob[w].path
              id == wjob[w].id
          IN  (wpc[w] = "remove" /\ wpc'[w] = "idle" /\ jerr'[id].op = "remove")
              => /\ w \in werr'
                 /\ id \in done'
                 /\ BackupName(p, wts[w]) \in dirs'[p]]_vars

\* C18 (only qualifying events enqueue): handleEvent starts an enqueue only for
\* a notification with the Create or the Write bit on a path that is not a
\* directory and is neither c.tmp nor under .git, and only such a job is ever
\* appended to the queue or recorded in the debounce map; a remove, rename or
\* chmod notification, a notification on a directory and one on an ignored
\* path leave the queue, the debounce map and the dispatcher where they were;
\* the creation of a directory registers it with the watch service.
OnlyQualifyingEnqueue ==
    [][LET p == evPath'
           op == evOp'
           handled == evPath' # evPath \/ evOp' # evOp
           qualifying == /\ op \cap {"Create", "Write"} # {}
                         /\ kind[p] # "dir"
                         /\ p \notin {PathT, PathG}
       IN  /\ \A c \in Callers :
                 (dpc[c] = "idle" /\ dpc'[c] = "send")
                 => /\ qualifying
                    /\ dev'[c].path = p
                    /\ dev'[c].eventType = (IF "Create" \in op THEN "CREATe" ELSE "WRITE")
           /\ queue' # queue
              => /\ Len(queue') = Len(queue) + 1
                 /\ \E c \in Callers : dpc[c] = "send" /\ queue'[Len(queue')] = dev[c]
                 /\ queue'[Len(queue')].path \in {PathA, PathB}
                 /\ queue'[Len(queue')].eventType \in {"CREATe", "WRITE"}
           /\ \A q \in Paths :
                 lastBackup'[q] # lastBackup[q]
                 => (queue' # queue /\ queue'[Len(queue')].path = q)
           /\ (handled /\ ~qualifying)
              => (queue' = queue /\ lastBackup' = lastBackup /\ dpc' = dpc /\ dev' = dev)
           /\ (handled /\ "Create" \in op /\ kind[p] = "dir")
              => p \in watched'
           /\ watched' # watched
              => ("Create" \in op /\ kind[p] = "dir" /\ watched' = watched \cup {p})]_vars

\* with a job in the queue and the directory d registered, a write of c.tmp was
\* handled
OnlyQualifyingEnqueueWitness ==
    /\ PathD \in watched
    /\ Len(queue) = 1
    /\ evPath = PathT
    /\ evOp = {"Write"}

\* C19 (admission records its timestamp): whenever enqueueBackup finds no entry
\* for the path or one at least minInterval old, it leaves lastBackup[path] at
\* the current time, whether the queue has room or is full; whenever the check
\* fails, the debounce map and the queue stay as they were.
AdmissionRecords ==
    [][/\ \A c \in Callers :
             (dpc[c] = "send" /\ dpc'[c] = "idle" /\ crashed' = "no")
             => lastBackup'[dev[c].path] = now
       /\ (nev' = nev + 1 /\ dpc' = dpc)
          => (queue' = queue /\ lastBackup' = lastBackup)]_vars

\* C20 (backoff doubles from the base delay): the wait before the k-th retry
\* is InitialDelay * 2^(k-1); every failed attempt that is followed by another
\* one is followed by one wait, and neither the final attempt nor a success by
\* any; a copy that fails on its attempts 1 and 2 and succeeds on attempt 3 has
\* waited twice, InitialDelay and 2 * InitialDelay, and has written its one
\* backup file.
BackoffDoubles ==
    [][\A w \in Workers :
          /\ \A k \in 1..Len(waits'[w]) : waits'[w][k] = InitialDelay * 2^(k - 1)
          /\ wpc'[w] = "copy" => Len(waits'[w]) = att'[w]
          /\ (wpc'[w] # "copy" /\ att'[w] > 0) => Len(waits'[w]) = att'[w] - 1
          /\ att'[w] = 0 => waits'[w] = <<>>
          /\ (wpc[w] = "copy" /\ wpc'[w] # "copy") => waits'[w] = waits[w]
          /\ (wpc[w] = "copy" /\ wpc'[w] = "glob" /\ att'[w] = 3)
             => /\ waits'[w] = <<InitialDelay, 2 * InitialDelay>>
                /\ copies'[wjob[w].id] = 1
                /\ BackupName(wjob[w].path, wts[w]) \in dirs'[wjob[w].path]
                /\ wdst'[w] = srcData[wjob[w].path]]_vars

\* a copy succeeded at its third attempt after two waits
BackoffDoublesWitness ==
    \E w \in Workers :
        /\ wpc[w] = "glob"
        /\ att[w] = 3
        /\ waits[w] = <<InitialDelay, 2 * InitialDelay>>
        /\ copies[wjob[w].id] = 1

\* C21 (shutdown runs at most once): however many signals arrive and whenever
\* they arrive relative to Start returning, the loop of runWatcher calls Stop at
\* most once: it never enters Stop with the job queue already closed, and no
\* channel is closed a second time.
ShutdownOnce ==
    /\ [][(mpc = "select" /\ mpc' = "close") => ~closed]_vars
    /\ [](crashed # "close of closed channel")

\* C22 (a failed backup leaves no version file): whenever CreateBackup returns
\* a copy error, be it a fatal one or the retries exhausted, after a read or
\* write failure behind os.Create as well, the version directory holds no file
\* under the name this call wrote to.
FailedBackupNoFile ==
    [][\A w \in Workers :
          LET p == wjob[w].path
              id == wjob[w].id
          IN  (wpc[w] = "copy" /\ wpc'[w] = "idle" /\ jerr'[id].stage = "copy")
              => BackupName(p, wts[w]) \notin dirs'[p]]_vars

\* C23 (eviction never deletes the newest version): with maxVersions >= 1,
\* in every pass of cleanOldVersions, also when two backups of one file run at
\* once, each file the pass deletes is one of the first
\* (listed count - maxVersions) entries of the listing the pass took, never the
\* entry that sorts last in it, the pass deletes no more files than that, and
\* its index never leaves the listing.
EvictionSparesNewest ==
    [][\A w \in Workers :
          LET m == matches[w]
              n == Len(m)
          IN  (/\ wpc[w] = "remove"
               /\ maxVersions >= 1
               /\ (ri'[w] # ri[w] \/ wpc'[w] # "remove"))
              => /\ w \notin panicked'
                 /\ \A j \in 1..(n - 1) : StrLess(FullPath(m[j]), FullPath(m[n]))
                 /\ \A q \in Paths :
                       \A x \in dirs[q] \ dirs'[q] :
                          /\ [dir |-> q, name |-> x] # m[n]
                          /\ \E j \in 1..(n - maxVersions) : m[j] = [dir |-> q, name |-> x]
                          /\ ri[w] + 1 <= n - maxVersions
                 /\ ri'[w] <= n - maxVersions]_vars

\* two backups of one file listed the same two versions; one pass has deleted
\* the older, the other pass is still at it, and the newer version is there
EvictionSparesNewestWitness ==
    \E w \in Workers :
        /\ wpc[w] = "remove"
        /\ Len(matches[w]) = 2
        /\ matches[w][1].name \notin dirs[matches[w][1].dir]
        /\ matches[w][2].name \in dirs[matches[w][2].dir]

====
